---- MODULE Spec2Model ----
(***************************************************************************)
(* Model of web_widget_ckeditor's FieldHtmlCKEditor widget                 *)
(* (static/src/js/field_ckeditor.js).                                      *)
(*                                                                         *)
(* Strings are sequences of one-character strings, so that split, join,    *)
(* replace and the regular expressions of the source work on characters.   *)
(* Three specifications share the module:                                  *)
(*   SpecNorm    the string functions _textToHtml and isSet                *)
(*   SpecConfig  the shared configuration promise and the toolbar items    *)
(*   Spec        the widget lifecycle: start, render, editor creation,     *)
(*               reset, destroy                                            *)
(***************************************************************************)
EXTENDS Naturals, Sequences, FiniteSets

VARIABLES
    \* ---- string functions (SpecNorm) ----
    value,      \* this.value of the widget: a field value
    domHit,     \* environment: a valid CSS selector matches an element of the page
    arg,        \* argument of the last _textToHtml call, or NoVal
    content,    \* this.$content's html: the result of the last _textToHtml call
    setArg,     \* this.value at the last isSet call, or NoVal
    setRes,     \* truthiness of the result of the last isSet call
    \* ---- configuration (SpecConfig, Spec) ----
    rpcCount,   \* number of rpc.query calls for the configuration
    cfgPromise, \* getCKEditorConfigPromise: pending, resolved (a config), rejected
    tcall,      \* per widget: a _getCKEditorToolbarItems call awaiting the promise
    tcalls,     \* per widget: number of _getCKEditorToolbarItems calls started
    items,      \* per widget: what the last _getCKEditorToolbarItems call resolved to
    seen,       \* per widget: the outcome of the promise the last call observed
    warned,     \* per widget: the last call logged its warnings
    \* ---- lifecycle (Spec) ----
    pc,         \* per widget: position in _renderEdit / _createCKEditorIntance
    ckeditor,   \* per widget: this.ckeditor, "undefined" or "editor"
    created,    \* per widget: number of editors ClassicEditor.create produced
    edDestroys, \* per widget: number of destroy() calls on the produced editor
    destroyed,  \* per widget: the widget's destroy ran (_super)
    dcalls,     \* per widget: number of calls of the widget's destroy
    handlers,   \* per widget: event handlers and keystrokes registered
    button,     \* per widget: the translate button was appended
    target,     \* per widget: the value of the hidden textarea this.$target
    \* ---- localization and start (Spec) ----
    lang,       \* CKEditorLanguageCode, from the session's locale
    langLoads,  \* number of ajax.loadJS calls for the localization script
    langScript, \* the script load: none, loading, loaded, failed
    langWarned, \* loadCKEditorLanguageSource logged its warning
    langPromise,\* loadCKEditorLanguagePromise: none, resolved, rejected
    wstart,     \* per widget: willStart's promise: none, pending, started, failed
    \* ---- reset (Spec) ----
    mode,       \* per widget: this.mode, "edit" or "readonly"
    edData,     \* per widget: the data of the editor this.ckeditor
    roContent,  \* per widget: the html of this.$content (readonly mode)
    resetBy,    \* per widget: the event of the last reset call: never (no
                \* call yet), self (event.target is the widget), other
    resetErr    \* per widget: a reset call raised

normVars == <<value, domHit, arg, content, setArg, setRes>>
cfgVars  == <<rpcCount, cfgPromise, tcall, tcalls, items, seen, warned>>
lifeVars == <<pc, ckeditor, created, edDestroys, destroyed, dcalls, handlers, button,
              target>>
langVars == <<lang, langLoads, langScript, langWarned, langPromise>>
editVars == <<wstart, mode, edData, roContent, resetBy, resetErr>>
vars     == <<normVars, cfgVars, lifeVars, langVars, editVars>>

-----------------------------------------------------------------------------
(* Bounds *)

MaxTokens == 3       \* a field value is made of at most this many chunks
MaxToolbarLen == 3   \* characters of a toolbar specification string
NumWidgets == 2      \* widget instances in the page session
MaxCalls == 2        \* _getCKEditorToolbarItems calls per widget
MaxDestroy == 2      \* calls of destroy per widget

-----------------------------------------------------------------------------
(* Strings *)

Whitespace == {" "}

\* the chunks field values are made of; a value is their concatenation
Tokens ==
    { <<"x">>, <<" ">>,
      <<"<", "b", "r", ">">>, <<"<", "b", "r", "/", ">">>,
      <<"&", "n", "b", "s", "p", ";">>,
      <<"<", "p", ">">>, <<"<", "/", "p", ">">>, <<"<", "p", " ">> }

RECURSIVE Flatten(_)
Flatten(ts) == IF ts = <<>> THEN <<>> ELSE Head(ts) \o Flatten(Tail(ts))

TokenSeqs == UNION { [1..n -> Tokens] : n \in 0..MaxTokens }

Strings == { Flatten(ts) : ts \in TokenSeqs }

NoVal == [kind |-> "none", s |-> <<>>]
Str(s) == [kind |-> "string", s |-> s]

\* a field value: a string, or an absent value (undefined, null, false)
Absent == { [kind |-> k, s |-> <<>>] : k \in {"undefined", "null", "false"} }
FieldValues == Absent \cup { Str(s) : s \in Strings }

\* JavaScript truthiness of a field value
Truthy(v) == v.kind = "string" /\ v.s # <<>>

\* pat occurs in s at index i
MatchAt(s, i, pat) ==
    /\ i + Len(pat) - 1 <= Len(s)
    /\ \A k \in 1..Len(pat) : s[i + k - 1] = pat[k]

Contains(s, pat) == \E i \in 1..Len(s) : MatchAt(s, i, pat)

\* s.split(pat).join(rep), and s.replace(/pat/g, rep) for a literal pat:
\* every occurrence, left to right, without overlap
RECURSIVE ReplaceAllFrom(_, _, _, _)
ReplaceAllFrom(s, i, pat, rep) ==
    IF i > Len(s) THEN <<>>
    ELSE IF MatchAt(s, i, pat)
         THEN rep \o ReplaceAllFrom(s, i + Len(pat), pat, rep)
         ELSE <<s[i]>> \o ReplaceAllFrom(s, i + 1, pat, rep)

ReplaceAll(s, pat, rep) == ReplaceAllFrom(s, 1, pat, rep)

\* s.replace(pat, rep) for a string pat: the first occurrence only
FirstIndex(s, pat) ==
    IF Contains(s, pat)
    THEN CHOOSE i \in 1..Len(s) :
            MatchAt(s, i, pat) /\ \A j \in 1..(i - 1) : ~MatchAt(s, j, pat)
    ELSE 0

ReplaceFirst(s, pat, rep) ==
    LET i == FirstIndex(s, pat) IN
    IF i = 0 THEN s
    ELSE SubSeq(s, 1, i - 1) \o rep \o SubSeq(s, i + Len(pat), Len(s))

\* s.replace(/\s/g, "")
RemoveWs(s) == SelectSeq(s, LAMBDA c : c \notin Whitespace)

\* s.match(/^\s*$/)
IsBlank(s) == \A i \in 1..Len(s) : s[i] \in Whitespace

\* s.match(/\S/)
HasNonWs(s) == \E i \in 1..Len(s) : s[i] \notin Whitespace

BR      == <<"<", "b", "r", ">">>
BRSLASH == <<"<", "b", "r", "/", ">">>
NBSP    == <<"&", "n", "b", "s", "p", ";">>
POPEN   == <<"<", "p", ">">>
PCLOSE  == <<"<", "/", "p", ">">>
PEMPTY  == POPEN \o PCLOSE
PBLANK  == POPEN \o BR \o PCLOSE

\* length of the match of /<br\/?>/ at index i, 0 when there is none
BrMatchLen(s, i) ==
    IF MatchAt(s, i, BRSLASH) THEN Len(BRSLASH)
    ELSE IF MatchAt(s, i, BR) THEN Len(BR)
    ELSE 0

\* the segments of s.split(/<br\/?>/)
RECURSIVE SplitBrFrom(_, _, _)
SplitBrFrom(s, i, cur) ==
    IF i > Len(s) THEN <<cur>>
    ELSE IF BrMatchLen(s, i) > 0
         THEN <<cur>> \o SplitBrFrom(s, i + BrMatchLen(s, i), <<>>)
         ELSE SplitBrFrom(s, i + 1, Append(cur, s[i]))

SplitBr(s) == SplitBrFrom(s, 1, <<>>)

\* segs.join(sep)
RECURSIVE Join(_, _)
Join(segs, sep) ==
    IF Len(segs) = 0 THEN <<>>
    ELSE IF Len(segs) = 1 THEN segs[1]
    ELSE segs[1] \o sep \o Join(Tail(segs), sep)

-----------------------------------------------------------------------------
(* _textToHtml and isSet *)

\* letters that may form a CSS type selector
IdentChars == {"x", "b", "r", "p", "n", "s"}

\* index of the first character of s that is not whitespace, Len(s)+1 if none
FirstNonWs(s) ==
    IF HasNonWs(s)
    THEN CHOOSE i \in 1..Len(s) :
            s[i] \notin Whitespace /\ \A j \in 1..(i - 1) : s[j] \in Whitespace
    ELSE Len(s) + 1

\* jQuery takes the string for markup: /^\s*(<[\w\W]+>)[^>]*$/
LooksLikeHtml(s) ==
    LET i == FirstNonWs(s) IN
    /\ i <= Len(s)
    /\ s[i] = "<"
    /\ \E j \in (i + 2)..Len(s) : s[j] = ">"

\* jQuery takes the string for a selector, and the selector is well formed
ValidSelector(s) ==
    /\ HasNonWs(s)
    /\ \A i \in 1..Len(s) : s[i] \in IdentChars \cup Whitespace

\* the probe $(text)[0].innerHTML raises:
\*   a falsy text gives the empty jQuery set, and [0] is undefined;
\*   markup is parsed, and the parse of these chunks always gives a node;
\*   a malformed selector raises a syntax error; a blank one matches nothing;
\*   a well-formed selector raises unless it matches an element of the page.
ProbeThrows(text, dom) ==
    IF ~Truthy(text) THEN TRUE
    ELSE IF LooksLikeHtml(text.s) THEN FALSE
    ELSE IF ValidSelector(text.s) THEN ~dom
    ELSE TRUE

\* "<p>" + value.split(/<br\/?>/).join("<br/></p><p>") + "</p>"
WrapParagraphsNoBr(v) == POPEN \o Join(SplitBr(v), PCLOSE \o POPEN) \o PCLOSE

WrapParagraphs(v) ==
    POPEN \o Join(SplitBr(v), BRSLASH \o PCLOSE \o POPEN) \o PCLOSE

\* .replace(/<p><\/p>/g, "").replace("<p><p>", "<p>")
\* .replace("<p><p ", "<p ").replace("</p></p>", "</p>")
Collapse(v) ==
    LET a == ReplaceAll(v, PEMPTY, <<>>)
        b == ReplaceFirst(a, POPEN \o POPEN, POPEN)
        c == ReplaceFirst(b, POPEN \o <<"<", "p", " ">>, <<"<", "p", " ">>)
    IN  ReplaceFirst(c, PCLOSE \o PCLOSE, PCLOSE)

\* the paragraph a blank text becomes
BlankParagraphNoSlash == PBLANK

BlankParagraph == POPEN \o BRSLASH \o PCLOSE

\* _textToHtml(text): the returned string
textToHtmlAlwaysWrap(text, dom) ==
    LET v == IF Truthy(text) THEN text.s ELSE <<>> IN
    IF IsBlank(v) THEN BlankParagraph
    ELSE Collapse(WrapParagraphs(v))

_textToHtml(text, dom) ==
    LET v == IF Truthy(text) THEN text.s ELSE <<>> IN
    IF ~ProbeThrows(text, dom) THEN v
    ELSE IF IsBlank(v) THEN BlankParagraph
    ELSE Collapse(WrapParagraphs(v))

\* this.value.split("&nbsp;").join("").replace(/\s/g, "")
Strip(s) == RemoveWs(ReplaceAll(s, NBSP, <<>>))

\* isSet(): the truthiness of the returned value
isSetNoSentinel(v) ==
    /\ Truthy(v)
    /\ Strip(v.s) # <<>>
    /\ Strip(v.s) # PEMPTY
    /\ HasNonWs(Strip(v.s))

isSetWrongClass(v) ==
    /\ Truthy(v)
    /\ Strip(v.s) # <<>>
    /\ Strip(v.s) # PEMPTY
    /\ Strip(v.s) # PBLANK
    /\ \E i \in 1..Len(Strip(v.s)) : Strip(v.s)[i] \in Whitespace

isSet(v) ==
    /\ Truthy(v)
    /\ Strip(v.s) # <<>>
    /\ Strip(v.s) # PEMPTY
    /\ Strip(v.s) # PBLANK
    /\ HasNonWs(Strip(v.s))

-----------------------------------------------------------------------------
(* The string functions as operations of a widget in readonly mode *)

Widgets == 1..NumWidgets

InitNorm ==
    /\ value \in FieldValues
    /\ domHit \in BOOLEAN
    /\ arg = NoVal
    /\ content = NoVal
    /\ setArg = NoVal
    /\ setRes = FALSE

\* _renderReadonly: this.$content holds _textToHtml(this.value)
RenderReadonly ==
    /\ arg' = value
    /\ content' = Str(_textToHtml(value, domHit))
    /\ UNCHANGED <<value, domHit, setArg, setRes>>

\* the record is updated with the rendered html; reset sets this.value
ResetValue ==
    /\ content # NoVal
    /\ value # content
    /\ value' = content
    /\ UNCHANGED <<domHit, arg, content, setArg, setRes>>

\* isSet() on the current value
IsSetCall ==
    /\ setArg' = value
    /\ setRes' = isSet(value)
    /\ UNCHANGED <<value, domHit, arg, content>>

InitConfigIdle ==
    /\ rpcCount = 0
    /\ cfgPromise = [state |-> "none"]
    /\ tcall = [w \in Widgets |-> FALSE]
    /\ tcalls = [w \in Widgets |-> 0]
    /\ items = [w \in Widgets |-> [status |-> "none"]]
    /\ seen = [w \in Widgets |-> [state |-> "none"]]
    /\ warned = [w \in Widgets |-> FALSE]

InitLifeIdle ==
    /\ pc = [w \in Widgets |-> "init"]
    /\ ckeditor = [w \in Widgets |-> "undefined"]
    /\ created = [w \in Widgets |-> 0]
    /\ edDestroys = [w \in Widgets |-> 0]
    /\ destroyed = [w \in Widgets |-> FALSE]
    /\ dcalls = [w \in Widgets |-> 0]
    /\ handlers = [w \in Widgets |-> {}]
    /\ button = [w \in Widgets |-> FALSE]
    /\ target = [w \in Widgets |-> NoVal]

InitLangIdle ==
    /\ lang = "en"
    /\ langLoads = 0
    /\ langScript = "none"
    /\ langWarned = FALSE
    /\ langPromise = "none"

InitEditIdle ==
    /\ wstart = [w \in Widgets |-> "none"]
    /\ mode = [w \in Widgets |-> "readonly"]
    /\ edData = [w \in Widgets |-> NoVal]
    /\ roContent = [w \in Widgets |-> NoVal]
    /\ resetBy = [w \in Widgets |-> "never"]
    /\ resetErr = [w \in Widgets |-> FALSE]

NextNorm ==
    \/ RenderReadonly /\ UNCHANGED <<cfgVars, lifeVars, langVars, editVars>>
    \/ ResetValue /\ UNCHANGED <<cfgVars, lifeVars, langVars, editVars>>
    \/ IsSetCall /\ UNCHANGED <<cfgVars, lifeVars, langVars, editVars>>

InitNormSpec ==
    InitNorm /\ InitConfigIdle /\ InitLifeIdle /\ InitLangIdle /\ InitEditIdle

SpecNorm == InitNormSpec /\ [][NextNorm]_vars

-----------------------------------------------------------------------------
(* Claims about _textToHtml and isSet (SpecNorm) *)

\* _textToHtml was called and took its fallback branch (the probe raised)
Fallback == arg # NoVal /\ ProbeThrows(arg, domHit)

\* isSet was called on the result of the last _textToHtml call
SetOfContent == setArg # NoVal /\ arg # NoVal /\ setArg = content

\* the characters of "&nbsp;", "<p>", "</p>" and "<br>"
MarkupChars == {"&", "n", "b", "s", "p", ";", "<", ">", "/", "r"}

HasPlainChar(s) == \E i \in 1..Len(s) : s[i] \notin Whitespace \cup MarkupChars

\* C3 as stated: a plain text with a non-whitespace character is set after
\* normalization, also when it is made of "&nbsp;".
C3_AsStated ==
    (Fallback /\ SetOfContent /\ arg.kind = "string" /\ HasNonWs(arg.s)) => setRes

\* C3 amended: a plain text holding at least one character that is neither
\* whitespace nor a character of "&nbsp;", "<p>", "</p>", "<br>" is set after
\* normalization: isSet(_textToHtml(text)) is truthy.
C3_PlainTextIsSet ==
    (Fallback /\ SetOfContent /\ arg.kind = "string" /\ HasPlainChar(arg.s)) => setRes

C3_Witness ==
    /\ Fallback /\ SetOfContent /\ setRes
    /\ arg.s = <<"x">> \o BR \o NBSP

\* one paragraph per segment, no marker kept
RECURSIVE ParagraphsPlain(_)
ParagraphsPlain(segs) ==
    IF Len(segs) = 0 THEN <<>>
    ELSE POPEN \o segs[1] \o PCLOSE \o ParagraphsPlain(Tail(segs))

\* one paragraph per segment; every segment but the last keeps "<br/>";
\* an empty last segment gives no paragraph
RECURSIVE ParagraphsBr(_)
ParagraphsBr(segs) ==
    IF Len(segs) = 0 THEN <<>>
    ELSE IF Len(segs) = 1
         THEN (IF segs[1] = <<>> THEN <<>> ELSE POPEN \o segs[1] \o PCLOSE)
         ELSE POPEN \o segs[1] \o BRSLASH \o PCLOSE \o ParagraphsBr(Tail(segs))

NoParagraphTag(segs) ==
    \A k \in 1..Len(segs) :
        ~Contains(segs[k], <<"<", "p">>) /\ ~Contains(segs[k], PCLOSE)

\* C4 as stated, for texts whose segments hold no paragraph tag: on the
\* fallback branch a non-blank text s1<br>..<br>sn is returned as
\* <p>s1</p>..<p>sn</p>, no line-break marker left in the paragraphs; so
\* "x<br>x" is returned as "<p>x</p><p>x</p>".
C4_AsStated ==
    (Fallback /\ ~IsBlank(arg.s) /\ NoParagraphTag(SplitBr(arg.s)))
        => /\ content.s = ParagraphsPlain(SplitBr(arg.s))
           /\ ~Contains(content.s, BR) /\ ~Contains(content.s, BRSLASH)

\* C4 amended: on the fallback branch a non-blank text whose segments hold no
\* paragraph tag is returned as <p>s1<br/></p>..<p>s(n-1)<br/></p><p>sn</p>:
\* every segment but the last keeps a "<br/>" before its closing tag, and an
\* empty last segment gives no paragraph.
C4_ParagraphPerSegment ==
    (Fallback /\ ~IsBlank(arg.s) /\ NoParagraphTag(SplitBr(arg.s)))
        => content.s = ParagraphsBr(SplitBr(arg.s))

C4_Witness ==
    /\ Fallback
    /\ arg.s = <<"x">> \o BR \o <<"x">>
    /\ content.s = POPEN \o <<"x">> \o BRSLASH \o PCLOSE \o POPEN \o <<"x">> \o PCLOSE

\* C5: the result of the fallback branch on a non-blank text holds no empty
\* paragraph, no doubled open tag and no doubled close tag.
C5_NoArtifact ==
    (Fallback /\ ~IsBlank(arg.s)) =>
        /\ ~Contains(content.s, PEMPTY)
        /\ ~Contains(content.s, POPEN \o POPEN)
        /\ ~Contains(content.s, POPEN \o <<"<", "p", " ">>)
        /\ ~Contains(content.s, PCLOSE \o PCLOSE)

\* C6: an absent, empty or whitespace-only text is returned as "<p><br/></p>".
C6_BlankParagraph ==
    (arg # NoVal /\ (arg \in Absent \/ IsBlank(arg.s))) =>
        content = Str(<<"<", "p", ">", "<", "b", "r", "/", ">", "<", "/", "p", ">">>)

C6_Witness ==
    /\ arg = Str(<<" ", " ">>)
    /\ content = Str(<<"<", "p", ">", "<", "b", "r", "/", ">", "<", "/", "p", ">">>)

\* C7: a text on which the probe succeeds is returned unchanged, and
\* normalizing the result again gives the same result.
C7_HtmlFixedPoint ==
    (arg # NoVal /\ ~ProbeThrows(arg, domHit)) =>
        /\ content = arg
        /\ _textToHtml(content, domHit) = content.s

C7_Witness ==
    /\ arg = Str(POPEN \o <<"x">> \o PCLOSE)
    /\ content = arg
    /\ value = content

\* C8: isSet is falsy exactly when the value is absent or, "&nbsp;" and
\* whitespace removed, is "", "<p></p>" or "<p><br></p>".
C8_IsEmpty ==
    setArg # NoVal =>
        (~setRes <=> (setArg \in Absent \/ Strip(setArg.s) \in {<<>>, PEMPTY, PBLANK}))

C8_Witness ==
    /\ setArg = Str(NBSP \o POPEN \o PCLOSE)
    /\ ~setRes

-----------------------------------------------------------------------------
(* The shared configuration promise and _getCKEditorToolbarItems *)

ToolbarSeparators == {" ", ","}
ToolbarChars == {"b"} \cup ToolbarSeparators

ToolbarStrings == UNION { [1..n -> ToolbarChars] : n \in 0..MaxToolbarLen }

\* what the backend may answer: null, or an object with or without a toolbar
Configs ==
    { [kind |-> "null", toolbar |-> NoVal] }
    \cup { [kind |-> "object", toolbar |-> [kind |-> "undefined", s |-> <<>>]] }
    \cup { [kind |-> "object", toolbar |-> Str(t)] : t \in ToolbarStrings }

DefaultToolbar ==
    << "undo", "redo", "findAndReplace", "pageBreak",
       "restrictedEditingException", "|", "heading", "|", "style", "|",
       "textPartLanguage", "|", "fontFamily", "fontSize", "fontColor",
       "fontBackgroundColor", "highlight", "|", "bold", "italic", "underline",
       "strikethrough", "superscript", "subscript", "removeFormat", "|",
       "alignment", "indent", "outdent", "|", "bulletedList", "numberedList",
       "todoList", "|", "link", "specialCharacters", "blockQuote",
       "insertTable", "imageUpload", "horizontalLine", "|", "code",
       "codeBlock", "htmlEmbed", "mediaEmbed" >>

\* s.split(/[\s,]+/): the pieces between the maximal runs of separators
RECURSIVE SplitSepFrom(_, _, _)
SplitSepFrom(s, i, cur) ==
    IF i > Len(s) THEN <<cur>>
    ELSE IF s[i] \in ToolbarSeparators
         THEN IF i > 1 /\ s[i - 1] \in ToolbarSeparators
              THEN SplitSepFrom(s, i + 1, cur)
              ELSE <<cur>> \o SplitSepFrom(s, i + 1, <<>>)
         ELSE SplitSepFrom(s, i + 1, Append(cur, s[i]))

SplitSep(s) == SplitSepFrom(s, 1, <<>>)

\* ckconfig.toolbar.split(/[\s,]+/).filter((item) => item)
ToolbarItemsOf(s) == SelectSeq(SplitSep(s), LAMBDA item : item # <<>>)

DefaultResult(w) ==
    [status |-> "resolved", source |-> "default", list |-> DefaultToolbar,
     warned |-> w]

\* the promise _getCKEditorToolbarItems returns, once the shared promise p is
\* settled: the try block, its catch, and the default list after them
ToolbarItemsResultNoCatch(p) ==
    IF p.state = "rejected" THEN DefaultResult(TRUE)
    ELSE IF p.cfg.kind = "null"
         THEN [status |-> "rejected", source |-> "none", list |-> <<>>,
               warned |-> FALSE]
    ELSE IF Truthy(p.cfg.toolbar)
         THEN [status |-> "resolved", source |-> "config",
               list |-> ToolbarItemsOf(p.cfg.toolbar.s), warned |-> FALSE]
    ELSE DefaultResult(FALSE)

ToolbarItemsResult(p) ==
    IF p.state = "rejected" THEN DefaultResult(TRUE)
    ELSE IF p.cfg.kind = "null" THEN DefaultResult(TRUE)
    ELSE IF Truthy(p.cfg.toolbar)
         THEN [status |-> "resolved", source |-> "config",
               list |-> ToolbarItemsOf(p.cfg.toolbar.s), warned |-> FALSE]
    ELSE DefaultResult(FALSE)

Settled == cfgPromise.state \in {"resolved", "rejected"}
Loaded == cfgPromise.state # "none"

\* loadCKEditorLanguageSource(CKEditorLanguageCode), called once in the module
\* body; its promise is loadCKEditorLanguagePromise.  For "en" it returns at
\* once.  Otherwise ajax.loadJS is called and not awaited: the catch sees a
\* raise of the call itself only, and the async function returns, so its
\* promise resolves, whatever becomes of the script load.
LoadLanguage ==
    /\ langPromise = "none"
    /\ langPromise' = "resolved"
    /\ lang' = lang
    /\ IF lang = "en"
       THEN UNCHANGED <<langLoads, langScript, langWarned>>
       ELSE /\ langLoads' = langLoads + 1
            /\ \E raises \in BOOLEAN :
                 IF raises
                 THEN langScript' = "failed" /\ langWarned' = TRUE
                 ELSE langScript' = "loading" /\ langWarned' = langWarned

\* the module is loaded: rpc.query is called and its promise kept
LoadModule ==
    /\ cfgPromise.state = "none"
    /\ rpcCount' = rpcCount + 1
    /\ cfgPromise' = [state |-> "pending"]
    /\ UNCHANGED <<tcall, tcalls, items, seen, warned>>

\* the backend answers
RpcResolve(c) ==
    /\ cfgPromise.state = "pending"
    /\ cfgPromise' = [state |-> "resolved", cfg |-> c]
    /\ UNCHANGED <<rpcCount, tcall, tcalls, items, seen, warned>>

\* the call fails
RpcReject ==
    /\ cfgPromise.state = "pending"
    /\ cfgPromise' = [state |-> "rejected"]
    /\ UNCHANGED <<rpcCount, tcall, tcalls, items, seen, warned>>

\* _getCKEditorToolbarItems up to its await of the shared promise
ToolbarCallOwnRpc(w) ==
    /\ Loaded
    /\ ~tcall[w]
    /\ tcalls[w] < MaxCalls
    /\ tcall' = [tcall EXCEPT ![w] = TRUE]
    /\ tcalls' = [tcalls EXCEPT ![w] = @ + 1]
    /\ rpcCount' = rpcCount + 1
    /\ UNCHANGED <<cfgPromise, items, seen, warned>>

ToolbarCall(w) ==
    /\ Loaded
    /\ ~tcall[w]
    /\ tcalls[w] < MaxCalls
    /\ tcall' = [tcall EXCEPT ![w] = TRUE]
    /\ tcalls' = [tcalls EXCEPT ![w] = @ + 1]
    /\ UNCHANGED <<rpcCount, cfgPromise, items, seen, warned>>

\* _getCKEditorToolbarItems from its await on, the shared promise settled
ToolbarResume(w) ==
    /\ tcall[w]
    /\ Settled
    /\ tcall' = [tcall EXCEPT ![w] = FALSE]
    /\ seen' = [seen EXCEPT ![w] = cfgPromise]
    /\ items' = [items EXCEPT ![w] = ToolbarItemsResult(cfgPromise)]
    /\ warned' = [warned EXCEPT ![w] = ToolbarItemsResult(cfgPromise).warned]
    /\ UNCHANGED <<rpcCount, cfgPromise, tcalls>>

InitNormIdle ==
    /\ value = Str(<<>>)
    /\ domHit = FALSE
    /\ arg = NoVal
    /\ content = NoVal
    /\ setArg = NoVal
    /\ setRes = FALSE

NextConfig ==
    \/ LoadModule /\ LoadLanguage /\ UNCHANGED <<normVars, lifeVars, editVars>>
    \/ \E c \in Configs :
          RpcResolve(c) /\ UNCHANGED <<normVars, lifeVars, langVars, editVars>>
    \/ RpcReject /\ UNCHANGED <<normVars, lifeVars, langVars, editVars>>
    \/ \E w \in Widgets :
          ToolbarCall(w) /\ UNCHANGED <<normVars, lifeVars, langVars, editVars>>
    \/ \E w \in Widgets :
          ToolbarResume(w) /\ UNCHANGED <<normVars, lifeVars, langVars, editVars>>

InitConfig ==
    InitNormIdle /\ InitConfigIdle /\ InitLifeIdle /\ InitLangIdle /\ InitEditIdle

SpecConfig == InitConfig /\ [][NextConfig]_vars

-----------------------------------------------------------------------------
(* Claims about the configuration (SpecConfig) *)

\* C9: the configuration RPC is issued exactly once, when the module is
\* loaded, whatever the number of widgets and of calls; every call of every
\* widget observes the outcome of that one shared promise, and only once the
\* promise is settled.
C9_OneSharedFetch ==
    /\ rpcCount = (IF Loaded THEN 1 ELSE 0)
    /\ \A w \in Widgets :
        /\ seen[w].state # "none" => (Settled /\ seen[w] = cfgPromise)
        /\ items[w].status # "none" => seen[w].state # "none"
    /\ \A w1, w2 \in Widgets :
        (seen[w1].state # "none" /\ seen[w2].state # "none") => seen[w1] = seen[w2]

C9_Witness ==
    /\ rpcCount = 1
    /\ \A w \in Widgets : tcalls[w] = MaxCalls /\ ~tcall[w]
    /\ \A w \in Widgets : seen[w].state = "resolved"

\* the number of items a toolbar string holds: the starts of its runs of
\* characters that are not separators
ItemStarts(s) ==
    Cardinality({ i \in 1..Len(s) :
        s[i] \notin ToolbarSeparators /\ (i = 1 \/ s[i - 1] \in ToolbarSeparators) })

\* C10: _getCKEditorToolbarItems never rejects; on a failed fetch, a null
\* configuration or a configuration without toolbar it resolves to the default
\* list; on a toolbar string it resolves to the string's items, split on
\* whitespace and commas, none of them empty.
C10_ToolbarItems ==
    \A w \in Widgets :
        items[w].status # "none" =>
            /\ items[w].status = "resolved"
            /\ (seen[w].state = "rejected" \/ ~Truthy(seen[w].cfg.toolbar))
                => (items[w].source = "default" /\ items[w].list = DefaultToolbar)
            /\ (seen[w].state = "resolved" /\ Truthy(seen[w].cfg.toolbar))
                => /\ items[w].source = "config"
                   /\ \A k \in 1..Len(items[w].list) :
                        /\ items[w].list[k] # <<>>
                        /\ \A i \in 1..Len(items[w].list[k]) :
                             items[w].list[k][i] \notin ToolbarSeparators
                   /\ Flatten(items[w].list)
                        = SelectSeq(seen[w].cfg.toolbar.s,
                                    LAMBDA c : c \notin ToolbarSeparators)
                   /\ Len(items[w].list) = ItemStarts(seen[w].cfg.toolbar.s)

C10_Witness ==
    /\ items[1].status = "resolved" /\ items[1].source = "config"
    /\ seen[1].cfg.toolbar.s = <<"b", ",", "b">>
    /\ items[1].list = << <<"b">>, <<"b">> >>

-----------------------------------------------------------------------------
(* The widget lifecycle in edit mode: _renderEdit, _createCKEditorIntance,   *)
(* destroy.  The widgets of the model render the same record field.          *)

\* what _createCKEditorIntance registers once the editor is created
Wiring == {"change", "change:isFocused", "enter", "Shift+enter"}

\* the field values and the backend answers of the lifecycle runs
LifeValues == { [kind |-> "false", s |-> <<>>], Str(<<"x">> \o BR \o <<"x">>) }

LifeConfigs ==
    { [kind |-> "null", toolbar |-> NoVal],
      [kind |-> "object", toolbar |-> Str(<<"b", ",", "b">>)] }

\* the two-letter language codes of the session locales of the lifecycle runs
Languages == {"en", "fr"}

\* _textToHtml on the field values of the lifecycle runs
NormOf == [v \in LifeValues, d \in BOOLEAN |-> Str(_textToHtml(v, d))]

InitLife ==
    /\ value \in LifeValues
    /\ domHit = FALSE
    /\ arg = NoVal
    /\ content = NoVal
    /\ setArg = NoVal
    /\ setRes = FALSE
    /\ InitConfigIdle
    /\ InitLifeIdle
    /\ lang \in Languages
    /\ langLoads = 0
    /\ langScript = "none"
    /\ langWarned = FALSE
    /\ langPromise = "none"
    /\ wstart = [w \in Widgets |-> "none"]
    /\ mode = [w \in Widgets |-> IF w % 2 = 1 THEN "edit" ELSE "readonly"]
    /\ edData = [w \in Widgets |-> NoVal]
    /\ roContent = [w \in Widgets |-> NoVal]
    /\ resetBy = [w \in Widgets |-> "never"]
    /\ resetErr = [w \in Widgets |-> FALSE]

\* the localization script is loaded
LangScriptLoaded ==
    /\ langScript = "loading"
    /\ langScript' = "loaded"
    /\ UNCHANGED <<lang, langLoads, langWarned, langPromise>>

\* the load of the localization script fails: the promise ajax.loadJS
\* returned rejects, and nothing handles it
LangScriptFailed ==
    /\ langScript = "loading"
    /\ langScript' = "failed"
    /\ UNCHANGED <<lang, langLoads, langWarned, langPromise>>

\* willStart: Promise.all of the framework's willStart (which resolves) and
\* loadCKEditorLanguagePromise
WillStart(w) ==
    /\ Loaded
    /\ wstart[w] = "none"
    /\ ~destroyed[w]
    /\ wstart' = [wstart EXCEPT ![w] = "pending"]
    /\ UNCHANGED <<mode, edData, roContent, resetBy, resetErr>>

\* the promise of willStart settles as Promise.all does
WillStartSettle(w) ==
    /\ wstart[w] = "pending"
    /\ langPromise \in {"resolved", "rejected"}
    /\ wstart' = [wstart EXCEPT ![w] =
                    IF langPromise = "rejected" THEN "failed" ELSE "started"]
    /\ UNCHANGED <<mode, edData, roContent, resetBy, resetErr>>

\* _renderEdit: the hidden textarea gets the normalized value, then
\* _createCKEditorIntance runs up to its first await (the configuration)
RenderEdit(w) ==
    /\ pc[w] = "init"
    /\ wstart[w] = "started"
    /\ mode[w] = "edit"
    /\ ~destroyed[w]
    /\ ToolbarCall(w)
    /\ target' = [target EXCEPT ![w] = NormOf[value, domHit]]
    /\ pc' = [pc EXCEPT ![w] = "config"]
    /\ UNCHANGED <<ckeditor, created, edDestroys, destroyed, dcalls, handlers, button>>

\* _createCKEditorIntance resumes with the configuration and calls
\* ClassicEditor.create, whose promise it awaits
ConfigResume(w) ==
    /\ pc[w] = "config"
    /\ ToolbarResume(w)
    /\ pc' = [pc EXCEPT ![w] =
                IF ToolbarItemsResult(cfgPromise).status = "resolved"
                THEN "creating" ELSE "failed"]
    /\ UNCHANGED <<ckeditor, created, edDestroys, destroyed, dcalls, handlers, button,
                   target>>

\* ClassicEditor.create resolves: the editor is kept in this.ckeditor, the
\* event hooks are registered, _onLoadCKEditor runs (the translate button),
\* the keystrokes are set
CreateResolve(w) ==
    /\ pc[w] = "creating"
    /\ created' = [created EXCEPT ![w] = @ + 1]
    /\ ckeditor' = [ckeditor EXCEPT ![w] = "editor"]
    /\ handlers' = [handlers EXCEPT ![w] = Wiring]
    /\ button' = [button EXCEPT ![w] = TRUE]
    /\ pc' = [pc EXCEPT ![w] = "ready"]
    /\ edData' = [edData EXCEPT ![w] = target[w]]
    /\ UNCHANGED <<edDestroys, destroyed, dcalls, target>>
    /\ UNCHANGED <<wstart, mode, roContent, resetBy, resetErr>>

\* ClassicEditor.create rejects: no editor is produced
CreateReject(w) ==
    /\ pc[w] = "creating"
    /\ pc' = [pc EXCEPT ![w] = "failed"]
    /\ UNCHANGED <<ckeditor, created, edDestroys, destroyed, dcalls, handlers, button,
                   target>>

\* _renderReadonly of a started widget in readonly mode
RenderReadonlyWidget(w) ==
    /\ pc[w] = "init"
    /\ wstart[w] = "started"
    /\ mode[w] = "readonly"
    /\ ~destroyed[w]
    /\ roContent' = [roContent EXCEPT ![w] = NormOf[value, domHit]]
    /\ pc' = [pc EXCEPT ![w] = "ready"]
    /\ UNCHANGED <<ckeditor, created, edDestroys, destroyed, dcalls, handlers, button,
                   target>>
    /\ UNCHANGED <<wstart, mode, edData, resetBy, resetErr>>

\* the events a reset call may come with
Origins == {"self", "other", "none"}

\* reset(record, event) of a rendered widget: _reset takes the record's value
\* v; unless the event comes from the widget itself the normalized value is
\* given to the editor (edit mode) or to this.$content (readonly mode).
\* this.ckeditor.setData raises a TypeError when this.ckeditor is undefined.
Reset(w, v, origin) ==
    /\ pc[w] # "init"
    /\ value' = v
    /\ UNCHANGED <<domHit, arg, content, setArg, setRes>>
    /\ resetBy' = [resetBy EXCEPT ![w] = IF origin = "self" THEN "self" ELSE "other"]
    /\ IF origin = "self"
       THEN UNCHANGED <<edData, roContent, resetErr>>
       ELSE IF mode[w] = "edit"
            THEN IF ckeditor[w] = "undefined"
                 THEN /\ resetErr' = [resetErr EXCEPT ![w] = TRUE]
                      /\ UNCHANGED <<edData, roContent>>
                 ELSE /\ edData' = [edData EXCEPT ![w] = NormOf[v, domHit]]
                      /\ UNCHANGED <<roContent, resetErr>>
            ELSE /\ roContent' = [roContent EXCEPT ![w] = NormOf[v, domHit]]
                 /\ UNCHANGED <<edData, resetErr>>
    /\ UNCHANGED <<wstart, mode>>

\* destroy: the editor this.ckeditor holds is destroyed and forgotten, then
\* the widget itself is destroyed (_super)
Destroy(w) ==
    /\ Loaded
    /\ dcalls[w] < MaxDestroy
    /\ dcalls' = [dcalls EXCEPT ![w] = @ + 1]
    /\ IF ckeditor[w] # "undefined"
       THEN /\ edDestroys' = [edDestroys EXCEPT ![w] = @ + 1]
            /\ ckeditor' = [ckeditor EXCEPT ![w] = "undefined"]
       ELSE UNCHANGED <<edDestroys, ckeditor>>
    /\ destroyed' = [destroyed EXCEPT ![w] = TRUE]
    /\ UNCHANGED <<pc, created, handlers, button, target>>

Next ==
    \/ LoadModule /\ LoadLanguage /\ UNCHANGED <<normVars, lifeVars, editVars>>
    \/ \E c \in LifeConfigs :
          RpcResolve(c) /\ UNCHANGED <<normVars, lifeVars, langVars, editVars>>
    \/ RpcReject /\ UNCHANGED <<normVars, lifeVars, langVars, editVars>>
    \/ LangScriptLoaded /\ UNCHANGED <<normVars, cfgVars, lifeVars, editVars>>
    \/ LangScriptFailed /\ UNCHANGED <<normVars, cfgVars, lifeVars, editVars>>
    \/ \E w \in Widgets :
          WillStart(w) /\ UNCHANGED <<normVars, cfgVars, lifeVars, langVars>>
    \/ \E w \in Widgets :
          WillStartSettle(w) /\ UNCHANGED <<normVars, cfgVars, lifeVars, langVars>>
    \/ \E w \in Widgets : RenderEdit(w) /\ UNCHANGED <<normVars, langVars, editVars>>
    \/ \E w \in Widgets : ConfigResume(w) /\ UNCHANGED <<normVars, langVars, editVars>>
    \/ \E w \in Widgets :
          CreateResolve(w) /\ UNCHANGED <<normVars, cfgVars, langVars>>
    \/ \E w \in Widgets :
          RenderReadonlyWidget(w) /\ UNCHANGED <<normVars, cfgVars, langVars>>
    \/ \E w \in Widgets, v \in LifeValues, origin \in Origins :
          Reset(w, v, origin) /\ UNCHANGED <<cfgVars, lifeVars, langVars>>
    \/ \E w \in Widgets :
          CreateReject(w) /\ UNCHANGED <<normVars, cfgVars, langVars, editVars>>
    \/ \E w \in Widgets :
          Destroy(w) /\ UNCHANGED <<normVars, cfgVars, langVars, editVars>>

Spec == InitLife /\ [][Next]_vars

-----------------------------------------------------------------------------
(* Claims about the lifecycle (Spec) *)

\* C1: every editor ClassicEditor.create produces for a widget has its
\* destroy() called exactly once: never twice, and not zero times once the
\* widget's destroy has run, also when it ran before the creation resolved.
C1_EditorDestroyedOnce ==
    \A w \in Widgets :
        /\ edDestroys[w] <= created[w]
        /\ (destroyed[w] /\ created[w] > 0) => edDestroys[w] = created[w]

\* C2: once the widget's destroy has run, the resolution of the creation
\* registers no event handler and no keystroke and appends no button.
C2_NoWiringAfterDestroy ==
    [][\A w \in Widgets :
          destroyed[w] => (handlers'[w] = handlers[w] /\ button'[w] = button[w])]_vars

\* C11: a failure of the localization script load is caught by the loader
\* and logged as a warning; it never makes willStart of a widget fail; for
\* "en" no script load is issued; the load is issued at most once.
C11_LanguageLoad ==
    /\ langScript = "failed" => langWarned
    /\ \A w \in Widgets : wstart[w] # "failed"
    /\ lang = "en" => langLoads = 0
    /\ langLoads <= 1

\* C12: reset never raises, whatever the state of the editor creation and
\* also after destroy; a reset whose event comes from the widget itself
\* leaves the editor data and the read-only content unchanged.
C12_ResetNeverRaises ==
    [][\A w \in Widgets :
          /\ ~resetErr'[w]
          /\ (resetBy'[w] = "self" /\ resetBy[w] # "self")
                => (edData'[w] = edData[w] /\ roContent'[w] = roContent[w])]_vars

====
